---- MODULE Spec2Model ----
(***************************************************************************)
(* Model of backend/detection.py: DetectionEngine.detect_image (primary    *)
(* pass, class mapping, per-class thresholds, driver localization, crop    *)
(* second pass, greedy NMS) and DetectionEngine.process_video (frame       *)
(* sampling and per-class statistics).                                     *)
(*                                                                         *)
(* Numbers.  A confidence is an integer number of hundredths (0.80 is 80). *)
(* A box coordinate is a float in the code; here it is an integer number   *)
(* of 1/Sub pixels, so that int(v) truncates: int(v) is v \div Sub pixels. *)
(* Frame and crop sizes are whole pixels, as in the code.                  *)
(***************************************************************************)
EXTENDS Integers, Sequences, FiniteSets, TLC

VARIABLES
    class_names,     \* self.class_names: the model vocabulary, set by load_model
    helper_model,    \* self.helper_model is loaded (TRUE) or None (FALSE)
    conf_threshold,  \* detect_image's conf_threshold argument
    pc,              \* "idle" before a call, "nms" at line 268, "returned" after
    results,         \* what the primary Detector call did: [threw, boxes]
    first_pass,      \* detections after the first-pass filter (line 162)
    helper_results,  \* what the helper call did: [called, threw, boxes]
    driver_boxes,    \* driver_boxes when the crop loop starts (line 197)
    crops,           \* one record per driver box: what the loop body did
    merged,          \* detections when the NMS step starts (line 270)
    ret,             \* the dict detect_image returned
    video            \* process_video: its arguments, its source and sink, its locals

image_vars == <<results, first_pass, helper_results, driver_boxes, crops, merged>>

vars == <<class_names, helper_model, conf_threshold, pc, results, first_pass,
          helper_results, driver_boxes, crops, merged, ret, video>>

----------------------------------------------------------------------------
(* Bounds of the model *)

\* sub-pixel resolution of a box coordinate
Sub == 2
\* frame width and height, in pixels
ImgW == 8
ImgH == 8
\* raw detections the Detector returns over the calls of one detect_image
MaxRaw == 2
\* detections that enter the NMS step on its own
MaxDets == 3
\* readable frames of a video source
MaxFrames == 3
\* process_every_n_frames is 1..MaxStride
MaxStride == 2

----------------------------------------------------------------------------
(* Helpers *)

Range(s) == {s[i] : i \in 1..Len(s)}

Max(a, b) == IF a >= b THEN a ELSE b

Min(a, b) == IF a <= b THEN a ELSE b

\* sequences over S of length at most n
SeqsUpTo(S, n) == UNION {[1..k -> S] : k \in 0..n}

\* int(v) of a non-negative float coordinate, in pixels
PyInt(v) == v \div Sub

----------------------------------------------------------------------------
(* Model vocabularies (self.model.names) *)

\* a generic model: its vocabulary holds 'person'
GenericNames == <<"person", "cell phone", "bottle", "cup", "wine glass", "cigarette", "car">>

\* a specialized model: no 'person' label
SpecialNames == <<"Smoke", "Phone", "Drink", "Driver", "Eat">>

IsGeneric(names) == "person" \in Range(names)

Detection(bbox, confidence, class_id, class_name) ==
    [bbox |-> bbox, confidence |-> confidence, class_id |-> class_id, class_name |-> class_name]

----------------------------------------------------------------------------
(* First pass: class mapping and threshold filter *)

target_behaviors == {"Smoke", "Phone", "Drink"}

\* a first pass that also keeps a specialized model's Driver label
FirstPassItemDriver(names, r) ==
    LET class_name == names[r.cls + 1] IN
    IF "person" \in Range(names)
    THEN IF class_name = "cell phone"
         THEN <<Detection(r.bbox, r.conf, 1, "Phone")>>
         ELSE IF class_name \in {"bottle", "cup", "wine glass"}
         THEN <<Detection(r.bbox, r.conf, 2, "Drink")>>
         ELSE IF class_name = "person"
         THEN <<Detection(r.bbox, r.conf, 3, "Driver")>>
         ELSE <<>>
    ELSE IF class_name \notin {"Smoke", "Phone", "Drink", "Driver"}
         THEN <<>>
         ELSE <<Detection(r.bbox, r.conf, r.cls, class_name)>>

\* the detections one raw first-pass detection r = [bbox, conf, cls] appends
FirstPassItem(names, r) ==
    LET class_name == names[r.cls + 1] IN
    IF "person" \in Range(names)
    THEN IF class_name = "cell phone"
         THEN <<Detection(r.bbox, r.conf, 1, "Phone")>>
         ELSE IF class_name \in {"bottle", "cup", "wine glass"}
         THEN <<Detection(r.bbox, r.conf, 2, "Drink")>>
         ELSE IF class_name = "person"
         THEN <<Detection(r.bbox, r.conf, 3, "Driver")>>
         ELSE <<>>
    ELSE IF class_name \notin target_behaviors
         THEN <<>>
         ELSE <<Detection(r.bbox, r.conf, r.cls, class_name)>>

\* the values of the comment above the table (lines 147-150)
class_thresholds_comment == [Smoke |-> 65, Drink |-> 12, Phone |-> 25, Driver |-> 25]

class_thresholds == [Smoke |-> 80, Drink |-> 10, Phone |-> 25, Driver |-> 25]

\* class_thresholds.get(name, default)
ThresholdGet(name, default) ==
    IF name \in DOMAIN class_thresholds THEN class_thresholds[name] ELSE default

FirstPassKeep(d, conf) == d.confidence >= ThresholdGet(d.class_name, conf)

RECURSIVE FirstPassMap(_, _)
\* the loop of lines 109-144 over the primary call's boxes
FirstPassMap(names, raw) ==
    IF raw = <<>> THEN <<>>
    ELSE FirstPassItem(names, Head(raw)) \o FirstPassMap(names, Tail(raw))

FirstPass(names, raw, conf) ==
    LET Keep(d) == FirstPassKeep(d, conf)
    IN  SelectSeq(FirstPassMap(names, raw), Keep)

----------------------------------------------------------------------------
(* Localization *)

\* the helper model's vocabulary (self.helper_model.names)
HelperNames == <<"person", "car">>

\* driver_boxes = [d['bbox'] for d in detections if d['class_name'] == 'Driver']
RECURSIVE DriverBoxesOf(_)
DriverBoxesOf(dets) ==
    IF dets = <<>> THEN <<>>
    ELSE (IF Head(dets).class_name = "Driver" THEN <<Head(dets).bbox>> ELSE <<>>)
         \o DriverBoxesOf(Tail(dets))

\* whether a helper box h = [bbox, cls] is taken as a driver
HelperIsPerson(h) == HelperNames[h.cls + 1] = "person"

\* the boxes the helper loop (lines 183-192) appends to driver_boxes
RECURSIVE HelperBoxes(_)
HelperBoxes(hraw) ==
    IF hraw = <<>> THEN <<>>
    ELSE (IF HelperIsPerson(Head(hraw)) THEN <<Head(hraw).bbox>> ELSE <<>>)
         \o HelperBoxes(Tail(hraw))

\* the synthetic detection appended for one helper person box
HelperDetection(bbox) == Detection(bbox, 80, 99, "Driver")

RECURSIVE HelperDetections(_)
HelperDetections(boxes) ==
    IF boxes = <<>> THEN <<>>
    ELSE <<HelperDetection(Head(boxes))>> \o HelperDetections(Tail(boxes))

\* the condition of line 174
NeedHelper(boxes, helper) == boxes = <<>> /\ helper

----------------------------------------------------------------------------
(* Crop region of one driver box, in pixels *)

\* int((x2 - x1) * 0.35)
MarginX(w) == (w * 35) \div 100

\* int((y2 - y1) * 0.3)
MarginY(h) == (h * 3) \div 10

\* int((y2 - y1) * 0.5)
ExtraBelow(h) == h \div 2

\* the crop region without the clamp to the frame
CropRectUnclamped(d_box, img_w, img_h) ==
    LET x1 == PyInt(d_box[1])
        y1 == PyInt(d_box[2])
        x2 == PyInt(d_box[3])
        y2 == PyInt(d_box[4])
        margin_x == MarginX(x2 - x1)
        margin_y == MarginY(y2 - y1)
    IN  << Max(0, x1 - margin_x),
           Max(0, y1 - margin_y),
           x2 + margin_x,
           y2 + margin_y + ExtraBelow(y2 - y1) >>

\* <<crop_x1, crop_y1, crop_x2, crop_y2>> of lines 200-208
CropRect(d_box, img_w, img_h) ==
    LET x1 == PyInt(d_box[1])
        y1 == PyInt(d_box[2])
        x2 == PyInt(d_box[3])
        y2 == PyInt(d_box[4])
        margin_x == MarginX(x2 - x1)
        margin_y == MarginY(y2 - y1)
    IN  << Max(0, x1 - margin_x),
           Max(0, y1 - margin_y),
           Min(img_w, x2 + margin_x),
           Min(img_h, y2 + margin_y + ExtraBelow(y2 - y1)) >>

\* a test that skips a crop for its height only
CropSkippedHeight(c) == c[4] <= c[2]

\* line 210: the crop is skipped
CropSkipped(c) == c[3] <= c[1] \/ c[4] <= c[2]

----------------------------------------------------------------------------
(* Second pass over one crop *)

\* the two floors the other way round
DetectConfSwapped(names) == IF "person" \notin Range(names) THEN 15 ELSE 20

\* detect_conf of line 216
DetectConf(names) == IF "person" \notin Range(names) THEN 20 ELSE 15

\* g_box of lines 229-234: the crop-local box moved by (crop_x1, crop_y1)
GlobalBox(sb, c) ==
    <<sb[1] + c[1] * Sub, sb[2] + c[2] * Sub, sb[3] + c[1] * Sub, sb[4] + c[2] * Sub>>

\* what one raw crop detection s = [bbox, conf, cls] appends (lines 223-264)
SecondPassItem(names, s, c) ==
    LET s_name == names[s.cls + 1]
        g_box == GlobalBox(s.bbox, c)
    IN  IF "person" \notin Range(names)
        THEN IF s.conf >= ThresholdGet(s_name, 20)
             THEN <<Detection(g_box, s.conf, s.cls, s_name)>>
             ELSE <<>>
        ELSE IF s_name = "cell phone" /\ s.conf >= ThresholdGet("Phone", 25)
             THEN <<Detection(g_box, s.conf, 1, "Phone")>>
             ELSE IF s_name \in {"bottle", "cup", "wine glass"}
                     /\ s.conf >= ThresholdGet("Drink", 12)
             THEN <<Detection(g_box, s.conf, 2, "Drink")>>
             ELSE IF s_name = "cigarette" /\ s.conf >= ThresholdGet("Smoke", 65)
             THEN <<Detection(g_box, s.conf, 0, "Smoke")>>
             ELSE <<>>

RECURSIVE SecondPass(_, _, _)
SecondPass(names, sraw, c) ==
    IF sraw = <<>> THEN <<>>
    ELSE SecondPassItem(names, Head(sraw), c) \o SecondPass(names, Tail(sraw), c)

----------------------------------------------------------------------------
(* NMS *)

\* _calculate_iou with the union taken as the sum of the two areas
calculate_iou_sum(box1, box2) ==
    LET inter_width == Max(0, Min(box1[3], box2[3]) - Max(box1[1], box2[1]))
        inter_height == Max(0, Min(box1[4], box2[4]) - Max(box1[2], box2[2]))
        area1 == (box1[3] - box1[1]) * (box1[4] - box1[2])
        area2 == (box2[3] - box2[1]) * (box2[4] - box2[2])
    IN  IF area1 + area2 > 0 THEN <<inter_width * inter_height, area1 + area2>> ELSE <<0, 1>>

\* _calculate_iou: the pair <<numerator, denominator>> of the ratio it returns
calculate_iou(box1, box2) ==
    LET x1_max == Max(box1[1], box2[1])
        y1_max == Max(box1[2], box2[2])
        x2_min == Min(box1[3], box2[3])
        y2_min == Min(box1[4], box2[4])
        inter_width == Max(0, x2_min - x1_max)
        inter_height == Max(0, y2_min - y1_max)
        inter_area == inter_width * inter_height
        area1 == (box1[3] - box1[1]) * (box1[4] - box1[2])
        area2 == (box2[3] - box2[1]) * (box2[4] - box2[2])
        union_area == area1 + area2 - inter_area
    IN  IF union_area > 0 THEN <<inter_area, union_area>> ELSE <<0, 1>>

\* iou < 0.45 (line 284), iou = <<numerator, denominator>>
IouBelow(iou) == iou[1] * 100 < 45 * iou[2]

\* a descending sort that puts d before the detections of equal confidence
RECURSIVE InsertDescUnstable(_, _)
InsertDescUnstable(d, sorted) ==
    IF sorted = <<>> THEN <<d>>
    ELSE IF Head(sorted).confidence > d.confidence
         THEN <<Head(sorted)>> \o InsertDescUnstable(d, Tail(sorted))
         ELSE <<d>> \o sorted

\* where the stable descending sort puts d in an already sorted list
RECURSIVE InsertDesc(_, _)
InsertDesc(d, sorted) ==
    IF sorted = <<>> THEN <<d>>
    ELSE IF Head(sorted).confidence >= d.confidence
         THEN <<Head(sorted)>> \o InsertDesc(d, Tail(sorted))
         ELSE <<d>> \o sorted

\* detections.sort(key=confidence, reverse=True): stable
RECURSIVE SortDesc(_)
SortDesc(dets) ==
    IF dets = <<>> THEN <<>>
    ELSE InsertDesc(dets[Len(dets)], SortDesc(SubSeq(dets, 1, Len(dets) - 1)))

\* a loop in which a detection suppresses only detections of its own class
RECURSIVE GreedySameClass(_)
GreedySameClass(dets) ==
    IF dets = <<>> THEN <<>>
    ELSE LET best_det == Head(dets)
             Keep(det) == \/ det.class_name # best_det.class_name
                          \/ IouBelow(calculate_iou(best_det.bbox, det.bbox))
         IN  <<best_det>> \o GreedySameClass(SelectSeq(Tail(dets), Keep))

\* the while loop of lines 275-286 over a sorted list
RECURSIVE Greedy(_)
Greedy(dets) ==
    IF dets = <<>> THEN <<>>
    ELSE LET best_det == Head(dets)
             Keep(det) == IouBelow(calculate_iou(best_det.bbox, det.bbox))
         IN  <<best_det>> \o Greedy(SelectSeq(Tail(dets), Keep))

\* lines 270-287
Dedup(dets) == IF Len(dets) > 1 THEN Greedy(SortDesc(dets)) ELSE dets

----------------------------------------------------------------------------
(* The Detector (external): what a call may return *)

\* the valid boxes with corners on the coordinates xs, ys
BoxesOn(xs, ys) ==
    {<<x1, y1, x2, y2>> : x1 \in xs, y1 \in ys, x2 \in xs, y2 \in ys} \cap
    {b \in (xs \X ys \X xs \X ys) : b[1] < b[3] /\ b[2] < b[4]}

\* raw detections of a model with vocabulary names over the given boxes, with
\* a confidence at or above the floor the call was given
RawSet(names, boxes, confs, labels, floor) ==
    {[bbox |-> b, conf |-> c, cls |-> k - 1] :
        b \in boxes,
        c \in {x \in confs : x >= floor},
        k \in {i \in 1..Len(names) : names[i] \in labels}}

\* a call throws, or returns at most n raw detections
Outcomes(S, n) ==
    {[threw |-> TRUE, boxes |-> <<>>]} \cup
    {[threw |-> FALSE, boxes |-> b] : b \in SeqsUpTo(S, n)}

\* the boxes a call on a w x h pixel crop may return: inside the crop
LocalBoxes(U, w, h) ==
    BoxesOn({0, w * Sub} \cup {v \in U.lxs : v < w * Sub},
            {0, h * Sub} \cup {v \in U.lys : v < h * Sub})

\* the helper model reports boxes and labels (the code reads no confidence)
HelperSet(U) ==
    {[bbox |-> b, cls |-> k - 1] :
        b \in U.boxes, k \in {j \in 1..Len(HelperNames) : HelperNames[j] \in U.labels}}

----------------------------------------------------------------------------
(* detect_image *)

NoCall == [threw |-> FALSE, boxes |-> <<>>]

NotCalled == [called |-> FALSE, threw |-> FALSE, boxes |-> <<>>]

\* one iteration of the crop loop (lines 199-266) on a driver box, o being
\* what the Detector does when it is called on the crop
CropRun(names, d_box, o) ==
    LET c == CropRect(d_box, ImgW, ImgH) IN
    IF CropSkipped(c)
    THEN [d_box |-> d_box, crop |-> c, called |-> FALSE, detect_conf |-> 0,
          threw |-> FALSE, sub_results |-> <<>>, found |-> <<>>]
    ELSE [d_box |-> d_box, crop |-> c, called |-> TRUE,
          detect_conf |-> DetectConf(names),
          threw |-> o.threw,
          sub_results |-> o.boxes,
          found |-> IF o.threw THEN <<>> ELSE SecondPass(names, o.boxes, c)]

\* a crop loop that a Detector exception leaves
RECURSIVE CropLoopStop(_, _, _)
CropLoopStop(names, boxes, couts) ==
    IF boxes = <<>> THEN <<>>
    ELSE LET run == CropRun(names, Head(boxes), Head(couts))
         IN  IF run.threw THEN <<run>>
             ELSE <<run>> \o CropLoopStop(names, Tail(boxes), Tail(couts))

\* the crop loop over the driver boxes (lines 197-266)
RECURSIVE CropLoop(_, _, _)
CropLoop(names, boxes, couts) ==
    IF boxes = <<>> THEN <<>>
    ELSE <<CropRun(names, Head(boxes), Head(couts))>>
         \o CropLoop(names, Tail(boxes), Tail(couts))

RECURSIVE FoundIn(_)
\* the detections the crop loop appended, in order
FoundIn(runs) == IF runs = <<>> THEN <<>> ELSE Head(runs).found \o FoundIn(Tail(runs))

\* the dict returned at line 289
Success(dets) == [success |-> TRUE, detections |-> dets, num_detections |-> Len(dets)]

\* the dict returned at line 297
Failure == [success |-> FALSE, detections |-> <<>>, num_detections |-> 0]

\* driver_boxes after line 171
OwnDriverBoxes(names, conf, prim) == DriverBoxesOf(FirstPass(names, prim.boxes, conf))

\* driver_boxes after line 194
DriverBoxes(names, helper, conf, prim, hout) ==
    LET own == OwnDriverBoxes(names, conf, prim) IN
    IF NeedHelper(own, helper) THEN own \o HelperBoxes(hout.boxes) ELSE own

\* lines 100-293: the locals of a call whose primary Detector call returned.
\* hout is what the helper call does if it is made, couts what the Detector
\* does on the crop of each driver box
Pipeline(names, helper, conf, prim, hout, couts) ==
    LET fp == FirstPass(names, prim.boxes, conf)
        own == DriverBoxesOf(fp)
        asked == NeedHelper(own, helper)
        hb == IF asked THEN HelperBoxes(hout.boxes) ELSE <<>>
        runs == CropLoop(names, own \o hb, couts)
        dets == (fp \o HelperDetections(hb)) \o FoundIn(runs)
    IN  [results |-> prim,
         first_pass |-> fp,
         helper_results |-> IF asked
                            THEN [called |-> TRUE, threw |-> hout.threw, boxes |-> hout.boxes]
                            ELSE NotCalled,
         driver_boxes |-> own \o hb,
         crops |-> runs,
         merged |-> dets,
         ret |-> Success(Dedup(dets))]

\* a call whose exceptions are all taken as empty lists of boxes
detect_image_recover(names, helper, conf, prim, hout, couts) ==
    Pipeline(names, helper, conf, prim, hout, couts)

\* detect_image(image, conf) on an ImgW x ImgH frame: the locals it ends
\* with. An exception of the primary call (line 100) reaches the handler of
\* lines 295-302
detect_image(names, helper, conf, prim, hout, couts) ==
    IF prim.threw
    THEN [results |-> prim, first_pass |-> <<>>, helper_results |-> NotCalled,
          driver_boxes |-> <<>>, crops |-> <<>>, merged |-> <<>>, ret |-> Failure]
    ELSE Pipeline(names, helper, conf, prim, hout, couts)

----------------------------------------------------------------------------
(* The Detector calls of one detect_image, drawn from a universe U *)

\* the primary call on the frame
PrimaryOutcomes(U, names, conf) ==
    Outcomes(RawSet(names, U.boxes, U.confs, U.labels, conf), U.max)

\* the helper call, when detect_image makes it
HelperOutcomes(U, names, helper, conf, prim) ==
    IF ~prim.threw /\ NeedHelper(OwnDriverBoxes(names, conf, prim), helper)
    THEN Outcomes(HelperSet(U), U.max - Len(prim.boxes))
    ELSE {NoCall}

\* the calls on the crops of the driver boxes, at most n raw detections in all
RECURSIVE CropOutcomes(_, _, _, _)
CropOutcomes(U, names, boxes, n) ==
    IF boxes = <<>> THEN {<<>>}
    ELSE LET c == CropRect(Head(boxes), ImgW, ImgH) IN
         IF CropSkipped(c)
         THEN {<<NoCall>> \o rest : rest \in CropOutcomes(U, names, Tail(boxes), n)}
         ELSE UNION {
                {<<o>> \o rest : rest \in CropOutcomes(U, names, Tail(boxes), n - Len(o.boxes))} :
                o \in Outcomes(RawSet(names, LocalBoxes(U, c[3] - c[1], c[4] - c[2]),
                                      U.confs, U.labels, DetectConf(names)), n)}

\* the crop calls of a detect_image whose primary and helper calls did prim, hout
CropCalls(U, names, helper, conf, prim, hout) ==
    IF prim.threw THEN {<<>>}
    ELSE CropOutcomes(U, names, DriverBoxes(names, helper, conf, prim, hout),
                      (U.max - Len(prim.boxes)) - Len(hout.boxes))

\* one call of detect_image
DetectImage(U) ==
    /\ pc = "idle"
    /\ pc' = "returned"
    /\ \E prim \in PrimaryOutcomes(U, class_names, conf_threshold) :
       \E hout \in HelperOutcomes(U, class_names, helper_model, conf_threshold, prim) :
       \E couts \in CropCalls(U, class_names, helper_model, conf_threshold, prim, hout) :
         LET run == detect_image(class_names, helper_model, conf_threshold, prim, hout, couts)
         IN  /\ results' = run.results
             /\ first_pass' = run.first_pass
             /\ helper_results' = run.helper_results
             /\ driver_boxes' = run.driver_boxes
             /\ crops' = run.crops
             /\ merged' = run.merged
             /\ ret' = run.ret
    /\ UNCHANGED <<class_names, helper_model, conf_threshold, video>>

\* every dict detect_image can return
Returns(U, names, helper, conf) ==
    UNION { UNION { {detect_image(names, helper, conf, prim, hout, couts).ret :
                        couts \in CropCalls(U, names, helper, conf, prim, hout)} :
                    hout \in HelperOutcomes(U, names, helper, conf, prim)} :
            prim \in PrimaryOutcomes(U, names, conf)}

----------------------------------------------------------------------------
(* process_video *)

\* no process_video call
NoVideo == [state |-> "none"]

\* draw_detections(frame, detections): a copy of the frame with one box and
\* one label drawn for each detection
draw_detections(frame, detections) == [frame EXCEPT !.drawn = Len(detections)]

\* a loop that counts a class once for each frame it is seen in
RECURSIVE CountDetectionsPerFrame(_, _, _)
CountDetectionsPerFrame(stats, dets, frame_idx) ==
    IF dets = <<>> THEN stats
    ELSE LET class_name == Head(dets).class_name
             counts == IF class_name \notin DOMAIN stats.counts
                       THEN stats.counts @@ (class_name :> 0)
                       ELSE stats.counts
             frames == IF class_name \notin DOMAIN stats.counts
                       THEN stats.frames @@ (class_name :> <<>>)
                       ELSE stats.frames
             seen == frame_idx \in Range(frames[class_name])
         IN  CountDetectionsPerFrame(
                 [counts |-> IF seen THEN counts ELSE [counts EXCEPT ![class_name] = @ + 1],
                  frames |-> IF seen THEN frames
                             ELSE [frames EXCEPT ![class_name] = Append(@, frame_idx)]],
                 Tail(dets), frame_idx)

\* the loop of lines 443-452 appending frame_idx for every detection
RECURSIVE CountDetectionsAppend(_, _, _)
CountDetectionsAppend(stats, dets, frame_idx) ==
    IF dets = <<>> THEN stats
    ELSE LET class_name == Head(dets).class_name
             counts == IF class_name \notin DOMAIN stats.counts
                       THEN stats.counts @@ (class_name :> 0)
                       ELSE stats.counts
             frames == IF class_name \notin DOMAIN stats.counts
                       THEN stats.frames @@ (class_name :> <<>>)
                       ELSE stats.frames
         IN  CountDetectionsAppend(
                 [counts |-> [counts EXCEPT ![class_name] = @ + 1],
                  frames |-> [frames EXCEPT ![class_name] = Append(@, frame_idx)]],
                 Tail(dets), frame_idx)

\* behavior_counts and behavior_frames after the loop of lines 443-452 over
\* the detections of frame frame_idx
RECURSIVE CountDetections(_, _, _)
CountDetections(stats, dets, frame_idx) ==
    IF dets = <<>> THEN stats
    ELSE LET class_name == Head(dets).class_name
             counts == IF class_name \notin DOMAIN stats.counts
                       THEN stats.counts @@ (class_name :> 0)
                       ELSE stats.counts
             frames == IF class_name \notin DOMAIN stats.counts
                       THEN stats.frames @@ (class_name :> <<>>)
                       ELSE stats.frames
         IN  CountDetections(
                 [counts |-> [counts EXCEPT ![class_name] = @ + 1],
                  frames |-> IF frame_idx \notin Range(frames[class_name])
                             THEN [frames EXCEPT ![class_name] = Append(@, frame_idx)]
                             ELSE frames],
                 Tail(dets), frame_idx)

\* a stride counted from the first frame as frame 1
SampledFromOne(frame_idx, n) == (frame_idx + 1) % n = 0

\* line 436: the frame is sent through detect_image
Sampled(frame_idx, n) == frame_idx % n = 0

\* lines 392-427: the source is opened, the sink prepared when output_path is
\* given (a VideoWriter that cannot be made for avc1 is made for mp4v, and an
\* exception of that second attempt leaves process_video), the statistics
\* start at zero for every name of the vocabulary
OpenVideo ==
    /\ video.state = "ready"
    /\ \E writer \in (IF video.output_path THEN {"avc1", "mp4v", "raise"} ELSE {"none"}) :
         video' = IF writer = "raise"
                  THEN [video EXCEPT !.state = "raised", !.cap = "open"]
                  ELSE [video EXCEPT
                          !.state = "streaming",
                          !.cap = "open",
                          !.out = IF writer = "none" THEN "none" ELSE "open",
                          !.behavior_counts = [c \in Range(class_names) |-> 0],
                          !.behavior_frames = [c \in Range(class_names) |-> <<>>],
                          !.all_detections = <<>>,
                          !.frame_idx = 0,
                          !.processed_frames = 0]
    /\ UNCHANGED <<class_names, helper_model, conf_threshold, pc, ret>>
    /\ UNCHANGED image_vars

\* a loop that does not count a frame whose detect_image call failed
AfterDetectSkipFailed(v, result) ==
    LET frame == [index |-> v.frame_idx, drawn |-> 0]
        stats == CountDetections([counts |-> v.behavior_counts, frames |-> v.behavior_frames],
                                 result.detections, v.frame_idx)
    IN  IF ~Sampled(v.frame_idx, v.process_every_n_frames)
        THEN [v |-> v, frame |-> frame, raised |-> FALSE]
        ELSE IF ~result.success
        THEN [v |-> v, frame |-> frame, raised |-> FALSE]
        ELSE IF result.num_detections = 0
        THEN [v |-> [v EXCEPT !.processed_frames = @ + 1], frame |-> frame, raised |-> FALSE]
        ELSE IF v.fps = 0
        THEN [v |-> [v EXCEPT !.behavior_counts = stats.counts,
                              !.behavior_frames = stats.frames],
              frame |-> frame, raised |-> TRUE]
        ELSE [v |-> [v EXCEPT !.behavior_counts = stats.counts,
                              !.behavior_frames = stats.frames,
                              !.all_detections =
                                  Append(@, [frame |-> v.frame_idx,
                                             timestamp |-> <<v.frame_idx, v.fps>>,
                                             detections |-> result.detections]),
                              !.processed_frames = @ + 1],
              frame |-> draw_detections(frame, result.detections),
              raised |-> FALSE]

\* what lines 436-464 make of a read frame whose detect_image call returned
\* result: the locals, the frame to write, and whether line 457 divided by a
\* zero fps
AfterDetect(v, result) ==
    LET frame == [index |-> v.frame_idx, drawn |-> 0]
        stats == CountDetections([counts |-> v.behavior_counts, frames |-> v.behavior_frames],
                                 result.detections, v.frame_idx)
    IN  IF ~Sampled(v.frame_idx, v.process_every_n_frames)
        THEN [v |-> v, frame |-> frame, raised |-> FALSE]
        ELSE IF ~(result.success /\ result.num_detections > 0)
        THEN [v |-> [v EXCEPT !.processed_frames = @ + 1], frame |-> frame, raised |-> FALSE]
        ELSE IF v.fps = 0
        THEN [v |-> [v EXCEPT !.behavior_counts = stats.counts,
                              !.behavior_frames = stats.frames],
              frame |-> frame, raised |-> TRUE]
        ELSE [v |-> [v EXCEPT !.behavior_counts = stats.counts,
                              !.behavior_frames = stats.frames,
                              !.all_detections =
                                  Append(@, [frame |-> v.frame_idx,
                                             timestamp |-> <<v.frame_idx, v.fps>>,
                                             detections |-> result.detections]),
                              !.processed_frames = @ + 1],
              frame |-> draw_detections(frame, result.detections),
              raised |-> FALSE]

\* the finally clause of lines 476-479
Release(v) == [v EXCEPT !.cap = "released",
                        !.out = IF @ # "none" THEN "released" ELSE @]

\* a sink that receives only the frames that were drawn on
WriteFrameAnnotated(written, frame, write) ==
    IF write = "ok" /\ frame.drawn > 0 THEN Append(written, frame) ELSE written

\* lines 467-468: the frames the sink holds after out.write(frame), which is
\* called when there is a sink ("ok", or "raise" when it raises)
WriteFrame(written, frame, write) ==
    IF write = "ok" THEN Append(written, frame) ELSE written

\* one iteration of the loop (lines 431-470) that reads a frame: the frame
\* goes through detect_image when sampled, is written to the sink when there
\* is one, and frame_idx advances; an exception of the division of line 457
\* or of out.write leaves the loop through the finally clause.  returns
\* gives, for the engine, the dicts detect_image can return on a frame
VideoFrame(returns) ==
    /\ video.state = "streaming"
    /\ video.frame_idx < video.total_frames
    /\ \E result \in (IF Sampled(video.frame_idx, video.process_every_n_frames)
                       THEN returns[[names |-> class_names, helper |-> helper_model]]
                       ELSE {ret}) :
       \E write \in (IF video.out = "open" THEN {"ok", "raise"} ELSE {"none"}) :
         LET a == AfterDetect(video, result) IN
         /\ ret' = result
         /\ video' = IF a.raised
                      THEN [Release(a.v) EXCEPT !.state = "raised"]
                      ELSE IF write = "raise"
                      THEN [Release(a.v) EXCEPT !.state = "raised"]
                      ELSE [a.v EXCEPT !.written = WriteFrame(@, a.frame, write),
                                       !.frame_idx = @ + 1]
    /\ UNCHANGED <<class_names, helper_model, conf_threshold, pc>>
    /\ UNCHANGED image_vars

\* cap.read() returns no frame: the loop ends, the finally clause releases
\* the source and the sink, and the dict of lines 483-498 is returned
EndOfStream ==
    /\ video.state = "streaming"
    /\ video.frame_idx = video.total_frames
    /\ video' = [Release(video) EXCEPT !.state = "returned"]
    /\ UNCHANGED <<class_names, helper_model, conf_threshold, pc, ret>>
    /\ UNCHANGED image_vars

RECURSIVE SumValues(_, _)
\* sum(behavior_counts.values()) over the keys in keys (line 495)
SumValues(counts, keys) ==
    IF keys = {} THEN 0
    ELSE LET k == CHOOSE x \in keys : TRUE
         IN  counts[k] + SumValues(counts, keys \ {k})

\* the dict process_video returns (lines 483-498)
VideoResult(v) ==
    [success |-> TRUE,
     video_info |-> [fps |-> v.fps,
                     total_frames |-> v.total_frames,
                     processed_frames |-> v.processed_frames],
     statistics |-> [behavior_counts |-> v.behavior_counts,
                     behavior_frames |-> v.behavior_frames,
                     total_detections |-> SumValues(v.behavior_counts,
                                                    DOMAIN v.behavior_counts)],
     detections |-> v.all_detections]

\* the engine after load_model: a generic model loads no helper, a specialized
\* one loads it or fails to
Engines == {[names |-> GenericNames, helper |-> FALSE],
            [names |-> SpecialNames, helper |-> TRUE],
            [names |-> SpecialNames, helper |-> FALSE]}

\* the conf_threshold a caller passes (default 0.25)
ConfThresholds == {5, 25}

\* a loaded engine, no call made yet
Idle ==
    /\ pc = "idle"
    /\ \E e \in Engines : class_names = e.names /\ helper_model = e.helper
    /\ conf_threshold \in ConfThresholds
    /\ results = NoCall
    /\ first_pass = <<>>
    /\ helper_results = NotCalled
    /\ driver_boxes = <<>>
    /\ crops = <<>>
    /\ merged = <<>>
    /\ ret = Failure
    /\ video = NoVideo

----------------------------------------------------------------------------
(* Specifications *)

XMid == (ImgW * Sub) \div 2

YMid == (ImgH * Sub) \div 2

AllLabels == Range(GenericNames) \cup Range(SpecialNames)

\* every confidence band and every label, with one of the three labels of a
\* drink, on the two halves of the frame
LabelU == [boxes |-> {<<0, 0, XMid, ImgH * Sub>>, <<XMid, 0, ImgW * Sub, ImgH * Sub>>},
           lxs |-> {3}, lys |-> {},
           confs |-> {5, 22, 70, 90},
           labels |-> AllLabels \ {"cup", "wine glass"},
           max |-> MaxRaw]

\* detect_image over every label and confidence band
ImageNext == DetectImage(LabelU)

SpecImage == Idle /\ [][ImageNext]_vars

\* the whole frame, and boxes of its lower part with sub-pixel corners, one
\* of them thinner than a pixel; a person label and one behaviour label
BoxU == [boxes |-> {<<0, 0, ImgW * Sub, ImgH * Sub>>}
                   \cup BoxesOn({0, XMid, XMid + 1, ImgW * Sub}, {YMid - 2, ImgH * Sub}),
         lxs |-> {3}, lys |-> {3},
         confs |-> {90},
         labels |-> {"person", "cell phone", "Phone"},
         max |-> MaxRaw]

\* detect_image over the boxes
CropNext == DetectImage(BoxU)

\* the boxes have one confidence, above every threshold: the default floor,
\* on the engines that have driver boxes to crop
CropIdle == Idle /\ conf_threshold = 25 /\ (IsGeneric(class_names) \/ helper_model)

SpecCrop == CropIdle /\ [][CropNext]_vars

\* the NMS step and the return (lines 268-293) on the detections in merged
Nms ==
    /\ pc = "nms"
    /\ pc' = "returned"
    /\ ret' = Success(Dedup(merged))
    /\ UNCHANGED <<class_names, helper_model, conf_threshold, results, first_pass,
                   helper_results, driver_boxes, crops, merged, video>>

\* detections on the halves and quarters of the frame, of two classes, with
\* equal and with different confidences
NmsDets ==
    {Detection(b, k[1], k[2], k[3]) :
        b \in BoxesOn({0, XMid, ImgW * Sub}, {0, YMid, ImgH * Sub}),
        k \in {<<90, 1, "Phone">>, <<70, 1, "Phone">>, <<70, 3, "Driver">>}}

\* line 268 reached with any list of at most MaxDets detections
AtNms ==
    /\ pc = "nms"
    /\ class_names = GenericNames
    /\ helper_model = FALSE
    /\ conf_threshold = 25
    /\ results = NoCall
    /\ first_pass = <<>>
    /\ helper_results = NotCalled
    /\ driver_boxes = <<>>
    /\ crops = <<>>
    /\ merged \in SeqsUpTo(NmsDets, MaxDets)
    /\ ret = Failure
    /\ video = NoVideo

NmsNext == Nms

SpecNms == AtNms /\ [][NmsNext]_vars

----------------------------------------------------------------------------
(* Properties *)

Area(b) == (b[3] - b[1]) * (b[4] - b[2])

\* the area two boxes share
Shared(a, b) ==
    LET w == Min(a[3], b[3]) - Max(a[1], b[1])
        h == Min(a[4], b[4]) - Max(a[2], b[2])
    IN  IF w > 0 /\ h > 0 THEN w * h ELSE 0

\* intersection over union of two boxes is at least 0.45
Overlapping(a, b) == Shared(a, b) * 100 >= 45 * (Area(a) + Area(b) - Shared(a, b))

\* C1: any two distinct detections of the list returned after the NMS step
\* have an intersection over union strictly below 0.45, whatever their classes.
C1_PairwiseBelow ==
    pc = "returned" =>
        \A i \in 1..Len(ret.detections) : \A j \in 1..Len(ret.detections) :
            i # j => ~Overlapping(ret.detections[i].bbox, ret.detections[j].bbox)

\* two detections of different classes are returned and an overlapping one was dropped
C1_Witness ==
    /\ pc = "returned"
    /\ Len(ret.detections) = 2
    /\ ret.detections[1].class_name # ret.detections[2].class_name
    /\ Len(merged) = 3
    /\ \E i \in 1..3 : \E j \in 1..3 :
         /\ merged[i].class_name # merged[j].class_name
         /\ Overlapping(merged[i].bbox, merged[j].bbox)

\* C2: the NMS step applied to its own output returns the same detections in
\* the same order.
C2_Idempotent ==
    pc = "returned" /\ ret.success => Dedup(ret.detections) = ret.detections

\* the step dropped a detection and returned two of equal confidence
C2_Witness ==
    /\ pc = "returned"
    /\ Len(merged) = 3
    /\ Len(ret.detections) = 2
    /\ ret.detections[1].confidence = ret.detections[2].confidence
    /\ ret.detections[1] # ret.detections[2]

\* the canonical classes and the threshold table of the specification
Canonical == {"Smoke", "Phone", "Drink", "Driver"}

TableValue(c) ==
    CASE c = "Smoke" -> 80 [] c = "Drink" -> 10 [] c = "Phone" -> 25 [] c = "Driver" -> 25

RECURSIVE Names(_)
\* the class names of a list of detections, in order
Names(dets) == IF dets = <<>> THEN <<>> ELSE <<Head(dets).class_name>> \o Names(Tail(dets))

FromCrop(d) == \E i \in 1..Len(crops) : d \in Range(crops[i].found)

C4_CanonicalOnly ==
    pc = "returned" => \A d \in Range(ret.detections) : d.class_name \in Canonical

\* the class the generic mapping of the specification gives a raw label
GenericClass(label) ==
    CASE label = "cell phone" -> <<"Phone">>
      [] label \in {"bottle", "cup", "wine glass"} -> <<"Drink">>
      [] label = "person" -> <<"Driver">>
      [] OTHER -> <<>>

RECURSIVE GenericClasses(_, _)
GenericClasses(names, raw) ==
    IF raw = <<>> THEN <<>>
    ELSE GenericClass(names[Head(raw).cls + 1]) \o GenericClasses(names, Tail(raw))

Confident(raw) == \A r \in Range(raw) : r.conf >= 80

\* C5: in generic mode the first pass and the crop pass apply one mapping of
\* the raw label: cell phone to Phone, bottle, cup and wine glass to Drink,
\* person to Driver, nothing for any other label.  Stated on raw detections
\* whose confidence passes every class threshold.
C5_OneGenericMapping ==
    pc = "returned" /\ IsGeneric(class_names) /\ ~results.threw =>
        /\ Confident(results.boxes) =>
             Names(first_pass) = GenericClasses(class_names, results.boxes)
        /\ \A i \in 1..Len(crops) :
             crops[i].called /\ ~crops[i].threw /\ Confident(crops[i].sub_results) =>
                Names(crops[i].found) = GenericClasses(class_names, crops[i].sub_results)

\* C6, as stated: in specialized mode a first-pass raw detection labelled
\* Driver with confidence at least 0.25 is kept as a Driver detection and its
\* box is a driver box of the second pass.
C6_DriverKept ==
    pc = "returned" /\ ~IsGeneric(class_names) /\ ~results.threw =>
        \A r \in Range(results.boxes) :
            class_names[r.cls + 1] = "Driver" /\ r.conf >= 25 =>
                /\ \E d \in Range(first_pass) : d.class_name = "Driver" /\ d.bbox = r.bbox
                /\ r.bbox \in Range(driver_boxes)

\* C6, amended: in specialized mode the first pass keeps only Smoke, Phone and
\* Drink, so a raw Driver detection is dropped whatever its confidence and the
\* driver boxes are exactly the person boxes of the helper model.
C6_DriverDropped ==
    pc = "returned" /\ ~IsGeneric(class_names) /\ ~results.threw =>
        /\ \A d \in Range(first_pass) : d.class_name \in {"Smoke", "Phone", "Drink"}
        /\ driver_boxes = HelperBoxes(helper_results.boxes)

\* a specialized model reported a Driver of confidence at least 0.25 in the
\* first pass, and the helper found a person
C6_Witness ==
    /\ pc = "returned"
    /\ ~IsGeneric(class_names)
    /\ \E r \in Range(results.boxes) : class_names[r.cls + 1] = "Driver" /\ r.conf >= 25
    /\ driver_boxes # <<>>

InFrame(b) ==
    /\ 0 <= b[1] /\ b[1] < b[3] /\ b[3] <= ImgW * Sub
    /\ 0 <= b[2] /\ b[2] < b[4] /\ b[4] <= ImgH * Sub

\* C7: every returned detection has a confidence in [0, 1] and a box with
\* x1 < x2, y1 < y2 inside the frame, a crop detection being the crop-local
\* box moved by (crop_x1, crop_y1).
C7_BoxesInFrame ==
    pc = "returned" =>
        /\ \A d \in Range(ret.detections) :
             0 <= d.confidence /\ d.confidence <= 100 /\ InFrame(d.bbox)
        /\ \A i \in 1..Len(crops) : \A k \in 1..Len(crops[i].found) :
             LET sb == crops[i].sub_results[k].bbox
                 g == crops[i].found[k].bbox
                 c == crops[i].crop
             IN  Len(crops[i].found) = Len(crops[i].sub_results) =>
                   /\ g[1] - sb[1] = c[1] * Sub /\ g[3] - sb[3] = c[1] * Sub
                   /\ g[2] - sb[2] = c[2] * Sub /\ g[4] - sb[4] = c[2] * Sub

\* a returned detection comes from a crop whose corner is not the frame's and
\* whose right and lower sides were clamped to the frame
C7_Witness ==
    /\ pc = "returned"
    /\ \E i \in 1..Len(crops) :
         /\ crops[i].crop[1] > 0 /\ crops[i].crop[2] > 0
         /\ crops[i].crop[3] = ImgW /\ crops[i].crop[4] = ImgH
         /\ \E d \in Range(crops[i].found) :
              d \in Range(ret.detections) /\ d.bbox[3] = ImgW * Sub /\ d.bbox[1] > crops[i].crop[1] * Sub

\* C8, as stated: when the primary Detector call throws, the frame goes on
\* with an empty first pass and detect_image reports success.
C8_PrimaryThrowRecovered ==
    pc = "returned" /\ results.threw =>
        /\ ret.success
        /\ helper_model => helper_results.called

\* C8, amended: when the primary Detector call throws, detect_image catches
\* the exception and returns success false with no detection; neither the
\* localization nor the second pass runs for that frame.
C8_PrimaryThrowFails ==
    pc = "returned" /\ results.threw =>
        /\ ret.success = FALSE
        /\ ret.detections = <<>>
        /\ ret.num_detections = 0
        /\ ~helper_results.called
        /\ crops = <<>>

\* the primary call of an engine with a helper model threw
C8_Witness == pc = "returned" /\ results.threw /\ helper_model

----------------------------------------------------------------------------
(* process_video runs *)

\* two boxes that do not overlap, one confidence, a person label and one
\* behaviour label that is in the vocabulary and one that maps to a new name
VideoU == [boxes |-> {<<0, 0, XMid, ImgH * Sub>>, <<XMid, 0, ImgW * Sub, ImgH * Sub>>},
           lxs |-> {}, lys |-> {},
           confs |-> {90},
           labels |-> {"person", "cell phone", "Phone"},
           max |-> MaxRaw]

\* what detect_image can return on a frame of the video, for each engine, at
\* the default conf_threshold
VideoReturns == [e \in Engines |-> Returns(VideoU, e.names, e.helper, 25)]

\* process_video is called on a loaded engine: a source of total_frames
\* readable frames, a stride of at least 1, with or without an output path
VideoReady ==
    /\ pc = "idle"
    /\ \E e \in Engines : class_names = e.names /\ helper_model = e.helper
    /\ conf_threshold = 25
    /\ results = NoCall
    /\ first_pass = <<>>
    /\ helper_results = NotCalled
    /\ driver_boxes = <<>>
    /\ crops = <<>>
    /\ merged = <<>>
    /\ ret = Failure
    /\ \E n \in 0..MaxFrames : \E s \in 1..MaxStride : \E o \in BOOLEAN : \E f \in {0, 25} :
         video = [state |-> "ready",
                  total_frames |-> n,
                  process_every_n_frames |-> s,
                  output_path |-> o,
                  fps |-> f,
                  cap |-> "closed",
                  out |-> "none",
                  behavior_counts |-> <<>>,
                  behavior_frames |-> <<>>,
                  all_detections |-> <<>>,
                  frame_idx |-> 0,
                  processed_frames |-> 0,
                  written |-> <<>>]

VideoNext == OpenVideo \/ VideoFrame(VideoReturns) \/ EndOfStream

SpecVideo == VideoReady /\ [][VideoNext]_vars

\* the frame indices below n that are sampled at stride s
SampledBelow(n, s) == {i \in 0..(n - 1) : i % s = 0}

\* C9: a frame goes through detect_image exactly when its index is a multiple
\* of process_every_n_frames, so processed_frames counts the multiples among
\* the frames read so far and, after a run over N frames at stride s, equals
\* ceil(N / s), frames without detection or with a failed detection included.
C9_ProcessedFrames ==
    video.state \in {"streaming", "returned"} =>
        /\ video.processed_frames =
             Cardinality(SampledBelow(video.frame_idx, video.process_every_n_frames))
        /\ video.state = "returned" =>
             /\ video.frame_idx = video.total_frames
             /\ video.processed_frames =
                  (video.total_frames + video.process_every_n_frames - 1)
                      \div video.process_every_n_frames

\* a run over three frames at stride 2 returned: frame 0 had detections, the
\* detection of frame 2 failed, and both are counted
C9_Witness ==
    /\ video.state = "returned"
    /\ video.total_frames = 3
    /\ video.process_every_n_frames = 2
    /\ video.processed_frames = 2
    /\ Len(video.all_detections) = 1
    /\ video.all_detections[1].frame = 0
    /\ ret.success = FALSE

\* C10: at every point of a video run behavior_frames[c] holds each frame
\* index at most once, for every class c.
C10_FramesOnce ==
    video.state \in {"streaming", "returned", "raised"} =>
        \A c \in DOMAIN video.behavior_frames :
            \A i \in 1..Len(video.behavior_frames[c]) :
                \A j \in 1..Len(video.behavior_frames[c]) :
                    i # j => video.behavior_frames[c][i] # video.behavior_frames[c][j]

\* a frame held two detections of one class, and the class was seen in a
\* second frame
C10_Witness ==
    /\ video.state = "streaming"
    /\ \E c \in DOMAIN video.behavior_frames :
         /\ Len(video.behavior_frames[c]) = 2
         /\ video.behavior_counts[c] = 3

RECURSIVE LoggedOf(_, _)
\* the number of detections of class c over the entries of a detection log
LoggedOf(log, c) ==
    IF log = <<>> THEN 0
    ELSE Cardinality({k \in 1..Len(Head(log).detections) :
                        Head(log).detections[k].class_name = c})
         + LoggedOf(Tail(log), c)

RECURSIVE LoggedAll(_)
\* the number of detections over the entries of a detection log
LoggedAll(log) ==
    IF log = <<>> THEN 0 ELSE Len(Head(log).detections) + LoggedAll(Tail(log))

\* the frame indices of the log entries that hold a detection of class c
LoggedFrames(log, c) ==
    {log[i].frame : i \in {j \in 1..Len(log) :
                              \E d \in Range(log[j].detections) : d.class_name = c}}

\* the classes that occur in a detection log
LoggedClasses(log) ==
    UNION {{d.class_name : d \in Range(log[i].detections)} : i \in 1..Len(log)}

\* C11: after a completed video run, for every class of a logged detection,
\* registered from the vocabulary or not, behavior_counts holds the number of
\* logged detections of the class and behavior_frames the frames that hold
\* one; every other key counts zero, and total_detections is the sum of the
\* counts and the number of logged detections.
C11_StatsAgree ==
    video.state = "returned" =>
        LET r == VideoResult(video)
            log == r.detections
            st == r.statistics
        IN  /\ \A c \in LoggedClasses(log) :
                 /\ c \in DOMAIN st.behavior_counts
                 /\ st.behavior_counts[c] = LoggedOf(log, c)
                 /\ Range(st.behavior_frames[c]) = LoggedFrames(log, c)
            /\ \A c \in DOMAIN st.behavior_counts \ LoggedClasses(log) :
                 st.behavior_counts[c] = 0 /\ st.behavior_frames[c] = <<>>
            /\ st.total_detections = LoggedAll(log)

\* a run returned whose log holds two detections of one frame of a class that
\* is not a name of the vocabulary, and a second logged frame
C11_Witness ==
    /\ video.state = "returned"
    /\ Len(video.all_detections) = 2
    /\ \E c \in LoggedClasses(video.all_detections) :
         /\ c \notin Range(class_names)
         /\ video.behavior_counts[c] = 3
         /\ Len(video.behavior_frames[c]) = 2

\* C12: once the source is opened, whenever process_video has left, by its
\* return or by an exception raised while the sink is prepared or a frame is
\* streamed, the source is released and a sink that was opened is released.
C12_Released ==
    video.state \in {"returned", "raised"} =>
        /\ video.cap = "released"
        /\ video.out # "open"

\* detection i of dets comes before detection j in the confidence-descending
\* order that keeps insertion order on ties
ComesBefore(dets, i, j) ==
    \/ dets[i].confidence > dets[j].confidence
    \/ dets[i].confidence = dets[j].confidence /\ i < j

\* dets in that order
StableOrder(dets) ==
    [k \in 1..Len(dets) |->
        dets[CHOOSE i \in 1..Len(dets) :
                Cardinality({j \in 1..Len(dets) : ComesBefore(dets, j, i)}) = k - 1]]

\* the detections of s at the positions K, in order
At(s, K) ==
    [k \in 1..Cardinality(K) |->
        s[CHOOSE i \in K : Cardinality({j \in K : j < i}) = k - 1]]

\* C13: the NMS step returns, in the stable confidence-descending order of its
\* input, exactly the detections that no kept detection before them overlaps
\* with an intersection over union of at least 0.45, whatever the two
\* classes: the first of the order is kept, and every kept detection is a
\* detection of the input, unaltered.
C13_GreedyKept ==
    pc = "returned" /\ Len(merged) > 1 =>
        LET s == StableOrder(merged) IN
        \E K \in SUBSET (1..Len(s)) :
            /\ 1 \in K
            /\ \A i \in 1..Len(s) :
                 i \in K <=> \A j \in K : j < i => ~Overlapping(s[j].bbox, s[i].bbox)
            /\ ret.detections = At(s, K)

\* of two overlapping detections of equal confidence and different classes
\* the one inserted first is returned and the other is not, after a detection
\* of higher confidence that was inserted last
C13_Witness ==
    /\ pc = "returned"
    /\ Len(merged) = 3
    /\ merged[1].confidence = merged[2].confidence
    /\ merged[1].class_name # merged[2].class_name
    /\ merged[3].confidence > merged[1].confidence
    /\ ret.detections = <<merged[3], merged[1]>>

\* C14, as stated: the confidence floor passed to the Detector on a crop is
\* strictly lower in specialized mode than the floor of generic mode.
C14_SpecializedLower ==
    pc = "returned" =>
        \A i \in 1..Len(crops) :
            crops[i].called =>
                IF IsGeneric(class_names)
                THEN crops[i].detect_conf > DetectConf(SpecialNames)
                ELSE crops[i].detect_conf < DetectConf(GenericNames)

\* C14, amended: the confidence floor passed to the Detector on a crop is
\* 0.20 in specialized mode and 0.15 in generic mode, strictly higher in
\* specialized mode, and no raw detection of the crop is below it.
C14_SpecializedHigher ==
    pc = "returned" =>
        \A i \in 1..Len(crops) :
            crops[i].called =>
                /\ crops[i].detect_conf = (IF IsGeneric(class_names) THEN 15 ELSE 20)
                /\ IsGeneric(class_names) => crops[i].detect_conf < DetectConf(SpecialNames)
                /\ ~IsGeneric(class_names) => crops[i].detect_conf > DetectConf(GenericNames)
                /\ \A r \in Range(crops[i].sub_results) : r.conf >= crops[i].detect_conf

\* a specialized model was called on a crop and returned a raw detection of
\* confidence 0.22, between its floor and the Phone threshold
C14_Witness ==
    /\ pc = "returned"
    /\ ~IsGeneric(class_names)
    /\ \E i \in 1..Len(crops) :
         /\ crops[i].called
         /\ \E r \in Range(crops[i].sub_results) : r.conf = 22

\* C15: when the primary call returned, an exception of the helper call or
\* of the Detector call on a crop does not fail the frame: detect_image
\* reports success, every driver box has its turn in the crop loop and every
\* crop that is not skipped is sent to the Detector, and the NMS step receives
\* the first-pass detections, the helper's Driver detections and what the
\* other crops found.
C15_ThrowsContained ==
    pc = "returned" /\ ~results.threw =>
        /\ ret.success
        /\ helper_results.threw => driver_boxes = <<>> /\ merged = first_pass
        /\ Len(crops) = Len(driver_boxes)
        /\ \A i \in 1..Len(crops) :
             /\ crops[i].d_box = driver_boxes[i]
             /\ crops[i].called <=> ~CropSkipped(crops[i].crop)
             /\ crops[i].threw => crops[i].found = <<>>
        /\ \A d \in Range(first_pass) : d \in Range(merged)
        /\ \A i \in 1..Len(crops) : \A d \in Range(crops[i].found) : d \in Range(merged)
        /\ Len(merged) >= Len(first_pass) + Len(FoundIn(crops))
        /\ ret.detections = Dedup(merged)

\* the Detector threw on the crop of the first driver box and was still
\* called on the crop of the second, and a detection is returned
C15_Witness ==
    /\ pc = "returned"
    /\ Len(crops) = 2
    /\ crops[1].threw
    /\ crops[2].called /\ ~crops[2].threw
    /\ ret.success
    /\ ret.detections # <<>>

\* C16: the Detector is called on the crop of a driver box only if the crop
\* rectangle has 0 <= crop_x1 < crop_x2 <= W and 0 <= crop_y1 < crop_y2 <= H;
\* a crop whose clamped width or height is not positive is skipped with no
\* Detector call and no exception, and the driver boxes after it still have
\* their turn.
C16_CropValid ==
    pc = "returned" /\ ~results.threw =>
        /\ ret.success
        /\ Len(crops) = Len(driver_boxes)
        /\ \A i \in 1..Len(crops) :
             LET c == crops[i].crop IN
             /\ crops[i].d_box = driver_boxes[i]
             /\ crops[i].called =>
                  /\ 0 <= c[1] /\ c[1] < c[3] /\ c[3] <= ImgW
                  /\ 0 <= c[2] /\ c[2] < c[4] /\ c[4] <= ImgH
             /\ (c[3] - c[1] <= 0 \/ c[4] - c[2] <= 0) =>
                  /\ ~crops[i].called
                  /\ ~crops[i].threw
                  /\ crops[i].sub_results = <<>>
                  /\ crops[i].found = <<>>
             /\ ~crops[i].called => (c[3] - c[1] <= 0 \/ c[4] - c[2] <= 0)

\* the first driver box is thinner than a pixel, its crop has no width and
\* was skipped, and the Detector was called on the crop of the second
C16_Witness ==
    /\ pc = "returned"
    /\ Len(crops) = 2
    /\ crops[1].d_box[1] < crops[1].d_box[3]
    /\ crops[1].crop[3] = crops[1].crop[1]
    /\ ~crops[1].called
    /\ crops[2].called
    /\ ret.success

\* the number of boxes drawn on frame i: the detections the log holds for it
DrawnOn(log, i) ==
    IF \E k \in 1..Len(log) : log[k].frame = i
    THEN Len(log[CHOOSE k \in 1..Len(log) : log[k].frame = i].detections)
    ELSE 0

\* C17: with an output sink, while the run streams and when it has returned,
\* the sink holds every frame read so far exactly once, in increasing index
\* order, sampled or not; a frame carries drawn boxes only if it was sampled
\* and the log holds detections for it, and is unmodified otherwise.  Without
\* a sink nothing is written.
C17_WrittenOnce ==
    video.state \in {"streaming", "returned"} =>
        IF video.out = "none"
        THEN video.written = <<>>
        ELSE /\ Len(video.written) = video.frame_idx
             /\ \A k \in 1..Len(video.written) :
                  /\ video.written[k].index = k - 1
                  /\ video.written[k].drawn = DrawnOn(video.all_detections, k - 1)
                  /\ video.written[k].drawn > 0 =>
                       Sampled(k - 1, video.process_every_n_frames)

\* a run at stride 2 returned with three frames in the sink: the first with
\* drawn boxes, the second not sampled, the third sampled without detection
C17_Witness ==
    /\ video.state = "returned"
    /\ video.out = "released"
    /\ video.process_every_n_frames = 2
    /\ Len(video.written) = 3
    /\ video.written[1].drawn > 0
    /\ video.written[2].drawn = 0
    /\ video.written[3].drawn = 0

\* C18: in a video run, the loop iteration of a sampled frame whose
\* detect_image call returns success false leaves the statistics and the
\* detection log as they were, counts the frame as processed, writes it
\* unmodified to the sink when there is one, and goes on to the next frame;
\* only an exception of out.write can end the run at that frame.
C18_FailedFrameGoesOn ==
    [][ ( /\ video.state = "streaming"
          /\ video.frame_idx < video.total_frames
          /\ Sampled(video.frame_idx, video.process_every_n_frames)
          /\ ~ret'.success )
        => /\ video'.behavior_counts = video.behavior_counts
           /\ video'.behavior_frames = video.behavior_frames
           /\ video'.all_detections = video.all_detections
           /\ video'.state \in {"streaming", "raised"}
           /\ video'.state = "raised" => video.out = "open"
           /\ video'.state = "streaming" =>
                /\ video'.processed_frames = video.processed_frames + 1
                /\ video'.frame_idx = video.frame_idx + 1
                /\ video'.written =
                     IF video.out = "open"
                     THEN Append(video.written, [index |-> video.frame_idx, drawn |-> 0])
                     ELSE video.written ]_vars

\* the detect_image call of frame 1 has just failed in a run at stride 1 with
\* a sink: frame 0 is in the log, both frames are counted and written, and
\* the run streams on
C18_Witness ==
    /\ video.state = "streaming"
    /\ video.process_every_n_frames = 1
    /\ video.frame_idx = 2
    /\ video.frame_idx < video.total_frames
    /\ ~ret.success
    /\ video.processed_frames = 2
    /\ Len(video.all_detections) = 1
    /\ video.all_detections[1].frame = 0
    /\ video.out = "open"
    /\ Len(video.written) = 2

====
